---- MODULE Spec2Model ----
(***************************************************************************)
(* Heightmap renderer (Kernel::Heightmap): the parallel driver `render`,   *)
(* the recursive renderer `recurse`, the leaf rasterizer `pixels`, the     *)
(* `fill` primitive and the normal batcher `NormalRenderer`.               *)
(*                                                                         *)
(* Sample positions are modelled by their index: px[i] = i, py[j] = j,     *)
(* pz[k] = k (monotonically increasing), and -infinity by NegInf = -1.     *)
(* A 32-bit packed normal is the tuple of its four byte lanes              *)
(* <<alpha, nz, ny, nx>> (most significant first).                         *)
(***************************************************************************)
EXTENDS Integers, Sequences, FiniteSets, TLC

\* Bounds of the model
MaxVoxels == 6      \* grids have at most this many voxels (Nx * Ny * Nz)
MaxN == 2           \* the batch capacity Result::N ranges over 1..MaxN
MaxWorkers == 2     \* the evaluator pool has 1..MaxWorkers evaluators
LiveVoxels == 4     \* the fair behaviours are explored up to this many voxels
AnyVoxels == 5      \* an unsound evaluator is explored up to this many voxels

\* Program constants
NegInf == -1                       \* -std::numeric_limits<float>::infinity()
ZERO == <<0, 0, 0, 0>>             \* norm.fill(0)
SKY == <<255, 255, 127, 127>>      \* 0xffff7f7f

VARIABLES
    vox,      \* <<Nx, Ny, Nz>>: sizes of r.pts[0], r.pts[1], r.pts[2]
    f,        \* the field at every voxel centre (after the transform): -1 or 1
    N,        \* Result::N, the evaluator's batch capacity
    es,       \* es.size(), the number of evaluators in the pool
    sound,    \* TRUE when Evaluator::eval returns intervals that bound the field
    abort,    \* the shared atomic flag
    depth,    \* DepthImage, indexed <<x, y>>
    norm,     \* NormalImage, indexed <<x, y>>
    pc,       \* the driver's position in render
    rs,       \* the driver's list of regions
    itr,      \* the driver's iterator into es (1-based; es + 1 is es.end())
    tasks,    \* the async tasks launched so far, in launch order
    evs       \* per evaluator: activity-stack depth, setMatrix calls, users

vars == <<vox, f, N, es, sound, abort, depth, norm, pc, rs, itr, tasks, evs>>

----------------------------------------------------------------------------
(* Voxels and Views *)

Pixels == (0 .. vox[1] - 1) \X (0 .. vox[2] - 1)
AllVoxels == (0 .. vox[1] - 1) \X (0 .. vox[2] - 1) \X (0 .. vox[3] - 1)

\* Voxels::view(): the View of the whole grid
RootView == [cx |-> 0, cy |-> 0, cz |-> 0, sx |-> vox[1], sy |-> vox[2], sz |-> vox[3]]

\* View::voxels()
voxels(r) == r.sx * r.sy * r.sz

\* r.pts.x()[i], r.pts.y()[j], r.pts.z()[k]: the View's own sample arrays
ptsx(r, i) == r.cx + i
ptsy(r, j) == r.cy + j
ptsz(r, k) == r.cz + k

\* the (x, y) footprint of a View and the voxels inside it
Footprint(r) == (r.cx .. r.cx + r.sx - 1) \X (r.cy .. r.cy + r.sy - 1)
InView(r) == (r.cx .. r.cx + r.sx - 1) \X (r.cy .. r.cy + r.sy - 1) \X (r.cz .. r.cz + r.sz - 1)

\* View::split<a>(): bisect along the largest of the axes enabled in the
\* mask (ties: X before Y before Z); the second child holds the larger indices
split(r, mx, my, mz) ==
    LET ax == IF mx THEN r.sx ELSE 0
        ay == IF my THEN r.sy ELSE 0
        az == IF mz THEN r.sz ELSE 0
    IN  IF ax >= ay /\ ax >= az
        THEN LET h == r.sx \div 2
             IN  <<[r EXCEPT !.sx = h], [r EXCEPT !.cx = r.cx + h, !.sx = r.sx - h]>>
        ELSE IF ay >= az
        THEN LET h == r.sy \div 2
             IN  <<[r EXCEPT !.sy = h], [r EXCEPT !.cy = r.cy + h, !.sy = r.sy - h]>>
        ELSE LET h == r.sz \div 2
             IN  <<[r EXCEPT !.sz = h], [r EXCEPT !.cz = r.cz + h, !.sz = r.sz - h]>>

----------------------------------------------------------------------------
(* The evaluator (external contract) *)

\* the field value at a staged point; a slot that was never staged holds 0
NoPt == <<-1, -1, -1>>
Value(p) == IF p \in AllVoxels THEN f[p] ELSE 0

\* Evaluator::derivs: the gradient at a point, a non-zero vector whose
\* length is an integer (the length is the third component of the pair)
derivs(p) ==
    LET s == (p[1] + 2 * p[2] + 3 * p[3]) % 4
    IN  IF s = 0 THEN <<<<0, 0, 1>>, 1>>
        ELSE IF s = 1 THEN <<<<1, 0, 0>>, 1>>
        ELSE IF s = 2 THEN <<<<0, -1, 0>>, 1>>
        ELSE <<<<3, 0, 4>>, 5>>

\* Evaluator::eval: the intervals the interval evaluator may return for a View
Intervals == {iv \in {-1, 0, 1} \X {-1, 0, 1} : iv[1] <= iv[2]}
Bounds(iv, r) == \A p \in InView(r) : iv[1] <= f[p] /\ f[p] <= iv[2]
eval(r) == {iv \in Intervals : sound => Bounds(iv, r)}

----------------------------------------------------------------------------
(* NormalRenderer.  The record m is the state one pixels or fill call works *)
(* on: the two images, the evaluator's input slots and result array, the    *)
(* batcher's xs, ys and count, the cursor index, and what the call          *)
(* observed: acc (the pixels it read or wrote), pushes and runs, and the    *)
(* record seen of what was done to the slots, the cursor and the images.    *)

\* a write to an array slot (a slot outside the array is not modelled)
Store(a, k, v) == IF k \in DOMAIN a THEN [a EXCEPT ![k] = v] ELSE a
\* a read of an array slot
Load(a, k) == IF k \in DOMAIN a THEN a[k] ELSE 0

\* uint32_t ix = 255 * (d / (2 * length) + 0.5)
lane(d, length) == (255 * (d + length)) \div (2 * length)

\* (0xff << 24) | (iz << 16) | (iy << 8) | ix
pack(ds) == <<255, lane(ds[1][3], ds[2]), lane(ds[1][2], ds[2]), lane(ds[1][1], ds[2])>>

\* what one pixels or fill call did:
\*   hiSlot   the largest index given to setRaw (-1: none)
\*   nvals    the count given to applyTransform and values
\*   hiPush   the largest slot written by push (-1: none)
\*   hiCount  the largest count a push returned with
\*   plan     the voxels staged, in slot order
\*   skipS, skipE  the columns skipped by the staging and the extraction pass
\*   reads    the slots of out read, each with the voxel it was read for and
\*            the number of runs before the read
\*   strides  the advances of the cursor over a column of the extraction pass
\*   pushRuns the columns of the extraction pass during which a run happened
\*   wrote    the depth writes <<pixel, z>>, in order
\*   pushed   the calls of push <<pixel, z>>, in order
\*   blits    the norm writes <<pixel, point whose gradient is written>>
NoSeen ==
    [hiSlot |-> -1, nvals |-> 0, hiPush |-> -1, hiCount |-> 0, plan |-> <<>>,
     skipS |-> {}, skipE |-> {}, reads |-> {}, strides |-> {}, pushRuns |-> {},
     wrote |-> <<>>, pushed |-> <<>>, blits |-> <<>>]

max2(a, b) == IF a >= b THEN a ELSE b

NewCall(d, n) ==
    [depth |-> d, norm |-> n, seen |-> NoSeen,
     slots |-> [k \in 0 .. N - 1 |-> NoPt],
     out |-> [k \in 0 .. N - 1 |-> 0],
     xs |-> [k \in 0 .. N - 1 |-> 0],
     ys |-> [k \in 0 .. N - 1 |-> 0],
     count |-> 0, index |-> 0, acc |-> {}, pushes |-> 0, runs |-> 0]

\* line 38: i < count, the blit loop covers every queued entry
\* (variant blitEnd_less: the last entry is left out)
blitEnd_less(m) == m.count - 1
blitEnd(m) == m.count

\* the loop of NormalRenderer::run over the slots i .. count-1
RECURSIVE blit(_, _)
blit(m, i) ==
    IF i >= blitEnd(m) THEN m
    ELSE LET p == <<Load(m.xs, i), Load(m.ys, i)>>
         IN  blit([m EXCEPT !.norm = Store(@, p, pack(derivs(Load(m.slots, i)))),
                            !.acc = @ \cup {p},
                            !.seen.blits = Append(@, <<p, Load(m.slots, i)>>)],
                  i + 1)

\* NormalRenderer::run: e->derivs(count) evaluates the first count slots
\* (which also rewrites their results), then the normals are blitted
run(m) ==
    LET m1 == [m EXCEPT !.out = [k \in DOMAIN m.out |->
                                    IF k < m.count THEN Value(m.slots[k]) ELSE m.out[k]],
                        !.runs = @ + 1]
    IN  [blit(m1, 0) EXCEPT !.count = 0]

\* NormalRenderer::flush
\* (variants: flush_never runs nothing; flush_gt1 leaves a single entry queued)
flush_never(m) == m
flush_gt1(m) == IF m.count > 1 THEN run(m) ELSE m
flush(m) == IF m.count > 0 THEN run(m) ELSE m

\* the pixel of column (i, j) of a View: depth(r.corner.y() + j, r.corner.x() + i)
pixel(r, i, j) == <<r.cx + i, r.cy + j>>

\* line 72: count == NUM_POINTS, the batch is full
\* (variant full_early: the batch counts as full one entry early)
full_early(count) == count = N - 1
full(count) == count = N

\* the end of push: run a full batch, then return
pushed(m) ==
    LET m1 == IF full(m.count) THEN run(m) ELSE m
    IN  [m1 EXCEPT !.seen.hiCount = max2(@, m1.count)]

\* NormalRenderer::push
\* (variant push_nocorner: xs and ys hold the indices inside the View)
push_nocorner(m, r, i, j, z) ==
    pushed([m EXCEPT !.xs = Store(@, m.count, i),
                     !.ys = Store(@, m.count, j),
                     !.slots = Store(@, m.count, <<ptsx(r, i), ptsy(r, j), z>>),
                     !.count = @ + 1,
                     !.pushes = @ + 1,
                     !.seen.hiPush = max2(@, m.count),
                     !.seen.pushed = Append(@, <<pixel(r, i, j), z>>)])
push(m, r, i, j, z) ==
    pushed([m EXCEPT !.xs = Store(@, m.count, r.cx + i),
                     !.ys = Store(@, m.count, r.cy + j),
                     !.slots = Store(@, m.count, <<ptsx(r, i), ptsy(r, j), z>>),
                     !.count = @ + 1,
                     !.pushes = @ + 1,
                     !.seen.hiPush = max2(@, m.count),
                     !.seen.pushed = Append(@, <<pixel(r, i, j), z>>)])

----------------------------------------------------------------------------
(* pixels and fill *)

\* r.pts.z()[r.size.z() - 1]
top(r) == ptsz(r, r.sz - 1)

\* r.pts.z()[r.size.z() - k - 1]
\* (variant zOfK_ascending: the column is scanned from the lowest z upward)
zOfK_ascending(r, k) == ptsz(r, k)
zOfK(r, k) == ptsz(r, r.sz - k - 1)

\* the test of VIEW_ITERATE_XYZ on column (i, j)
visit(m, r, i, j) == Load(m.depth, pixel(r, i, j)) < top(r)

\* the staging pass of pixels from column number c on (c = i * size.y + j)
RECURSIVE stage(_, _, _)
stage(m, r, c) ==
    IF c >= r.sx * r.sy THEN m
    ELSE LET i == c \div r.sy
             j == c % r.sy
             m1 == [m EXCEPT !.acc = @ \cup {pixel(r, i, j)}]
         IN  IF visit(m, r, i, j)
             THEN stage([m1 EXCEPT
                            !.slots = [k \in DOMAIN m.slots |->
                                IF k >= m.index /\ k < m.index + r.sz
                                THEN <<ptsx(r, i), ptsy(r, j), zOfK(r, k - m.index)>>
                                ELSE m.slots[k]],
                            !.index = @ + r.sz,
                            !.seen.hiSlot = max2(@, m.index + r.sz - 1),
                            !.seen.plan = @ \o [k \in 1 .. r.sz |->
                                <<ptsx(r, i), ptsy(r, j), zOfK(r, k - 1)>>]],
                        r, c + 1)
             ELSE stage([m1 EXCEPT !.seen.skipS = @ \cup {c}], r, c + 1)

\* e->applyTransform(index); out = e->values(index); index = 0
values(m) ==
    [m EXCEPT !.out = [k \in DOMAIN m.out |->
                          IF k < m.index THEN Value(m.slots[k]) ELSE m.out[k]],
              !.index = 0,
              !.seen.nvals = m.index]

\* line 140: index += r.size.z() - k - 1, the rest of the column
\* (variant skipRest_all: the slot just read is counted again)
skipRest_all(r, k) == r.sz - k
skipRest(r, k) == r.sz - k - 1

\* the k loop of the extraction pass on column (i, j), from k on
RECURSIVE scan(_, _, _, _, _)
scan(m, r, i, j, k) ==
    IF k >= r.sz THEN m
    ELSE LET m1 == [m EXCEPT !.index = @ + 1,
                             !.seen.reads = @ \cup
                                 {[slot |-> m.index, runs |-> m.runs,
                                   pt |-> <<ptsx(r, i), ptsy(r, j), zOfK(r, k)>>]}]
         IN  IF Load(m.out, m.index) < 0
             THEN LET z == zOfK(r, k)
                      p == pixel(r, i, j)
                      m2 == IF Load(m1.depth, p) < z
                            THEN push([m1 EXCEPT !.depth = Store(@, p, z),
                                                 !.seen.wrote = Append(@, <<p, z>>)],
                                      r, i, j, z)
                            ELSE m1
                  IN  [m2 EXCEPT !.index = @ + skipRest(r, k)]
             ELSE scan(m1, r, i, j, k + 1)

\* the extraction pass of pixels from column number c on
RECURSIVE extract(_, _, _)
extract(m, r, c) ==
    IF c >= r.sx * r.sy THEN m
    ELSE LET i == c \div r.sy
             j == c % r.sy
             m1 == [m EXCEPT !.acc = @ \cup {pixel(r, i, j)}]
             m2 == scan(m1, r, i, j, 0)
         IN  IF visit(m, r, i, j)
             THEN extract([m2 EXCEPT
                              !.seen.strides = @ \cup {m2.index - m.index},
                              !.seen.pushRuns =
                                  IF m2.runs > m.runs THEN @ \cup {c} ELSE @],
                          r, c + 1)
             ELSE extract([m1 EXCEPT !.seen.skipE = @ \cup {c}], r, c + 1)

\* pixels(e, r, depth, norm); the result's count is what ~NormalRenderer sees
pixels(r, d, n) == flush(extract(values(stage(NewCall(d, n), r, 0)), r, 0))

\* line 172: the voxel is in front of the image's depth
\* (variant inFront_always: the depth is overwritten without the test)
inFront_always(d, p, z) == TRUE
inFront(d, p, z) == Load(d, p) < z

\* the loops of fill from column number c on
RECURSIVE flood(_, _, _)
flood(m, r, c) ==
    IF c >= r.sx * r.sy THEN m
    ELSE LET i == c \div r.sy
             j == c % r.sy
             p == pixel(r, i, j)
             z == top(r)
             m1 == [m EXCEPT !.acc = @ \cup {p}]
         IN  IF inFront(m.depth, p, z)
             THEN flood(push([m1 EXCEPT !.depth = Store(@, p, z),
                                        !.seen.wrote = Append(@, <<p, z>>)],
                             r, i, j, z),
                        r, c + 1)
             ELSE flood(m1, r, c + 1)

\* fill(e, r, depth, norm)
fill(r, d, n) == flush(flood(NewCall(d, n), r, 0))

----------------------------------------------------------------------------
(* recurse.  A task is a stack of recurse invocations (frames); a frame is  *)
(* at "poll" (line 192), "body" (lines 198-228), "second" (waiting for      *)
(* recurse(rs.second), line 232) or "first" (waiting for recurse(rs.first), *)
(* line 237).  base is the evaluator's activity-stack depth when the        *)
(* invocation was entered and late tells whether abort was set by then.     *)
(* hi is the result of the sub-call on rs.second ("none" before it).  Of a  *)
(* task the model also keeps what it did so far: evals, the number of       *)
(* e->eval calls, out, what the last of them said, after, the calls made    *)
(* while abort was set, and log, the returns of its splitting invocations.  *)
(* What an invocation does between the return of a sub-call and its next    *)
(* sub-call or its own return touches only its own evaluator, so it is      *)
(* part of the step in which the sub-call returns.                          *)

\* the last pixels or fill call of a task: its View, the batcher's count when
\* it was destroyed, the cursor at the end, and what the call did
NoBatch ==
    [kind |-> "none", r |-> RootView, count |-> 0, pushes |-> 0, runs |-> 0,
     index |-> 0, seen |-> NoSeen]
Batch(kind, r, m) ==
    [kind |-> kind, r |-> r, count |-> m.count, pushes |-> m.pushes,
     runs |-> m.runs, index |-> m.index, seen |-> m.seen]

\* what a task did while abort was set: calls of e->eval and calls of
\* pixels or fill
NoWork == [evals |-> 0, calls |-> 0]
Work(w, e, c) == IF abort THEN [evals |-> w.evals + e, calls |-> w.calls + c] ELSE w

Frame(r, ev) ==
    [r |-> r, pc |-> "poll", base |-> ev.active, late |-> abort, hi |-> "none"]

Tasks == 1 .. Len(tasks)
Running(t) == tasks[t].stack # <<>>
Top(t) == tasks[t].stack[Len(tasks[t].stack)]
Caller(t) == SubSeq(tasks[t].stack, 1, Len(tasks[t].stack) - 1)

\* Evaluator::push and Evaluator::pop
epush(ev) == [ev EXCEPT !.active = @ + 1]
epop(ev) == [ev EXCEPT !.active = @ - 1]

\* block = depth.block(corner.y, corner.x, size.y, size.x)
\* (variant block_swapped: the block's row and column counts are exchanged)
block_swapped(r) == (r.cx .. r.cx + r.sy - 1) \X (r.cy .. r.cy + r.sx - 1)
block(r) == Footprint(r)

\* (block >= r.pts.z()[r.size.z() - 1]).all()
\* (variant occluded_never: the test never succeeds)
occluded_never(r, d) == FALSE
occluded(r, d) == \A p \in block(r) : Load(d, p) >= top(r)

\* lines 228-237: auto rs = r.split(); rs.second is recursed into first and
\* rs.first afterwards
\* (variant rsSecond_low: the two halves are taken in the other order)
rsSecond_low(r) == split(r, TRUE, TRUE, TRUE)[1]
rsSecond(r) == split(r, TRUE, TRUE, TRUE)[2]
rsFirst(r) == split(r, TRUE, TRUE, TRUE)[1]

\* lines 233-236: recurse(rs.second) returned false: e->pop(); return false
\* (variant abortSecond_nopop: the abort path returns without the pop)
abortSecond_nopop(c, callers) == [c EXCEPT !.stack = callers]
abortSecond(c, callers) == [c EXCEPT !.stack = callers, !.ev = epop(@)]

\* lines 238-241 and 244-246: recurse(rs.first) returned: e->pop(); return
afterFirst(c, callers) == [c EXCEPT !.stack = callers, !.ev = epop(@)]

\* lines 232-246: the invocation on top of the stack of callers receives the
\* result res of its sub-call and continues up to its next sub-call or to the
\* end of the task; c is the task's stack, ret and evaluator
\* line 232: !recurse(rs.second)
\* (variant secondFailed_never: the result of the sub-call is not looked at)
secondFailed_never(res) == FALSE
secondFailed(res) == res = "false"

\* an invocation returns res after its sub-calls returned hi and lo ("none"
\* for a sub-call that was not made)
returned(c, hi, lo, res) ==
    [c EXCEPT !.log = @ \cup {[hi |-> hi, lo |-> lo, res |-> res]}]

RECURSIVE unwind(_, _)
unwind(c, res) ==
    IF c.stack = <<>> THEN [c EXCEPT !.ret = res]
    ELSE LET n == Len(c.stack)
             fr == c.stack[n]
             callers == SubSeq(c.stack, 1, n - 1)
         IN  IF fr.pc = "second"
             THEN IF secondFailed(res)
                  THEN unwind(returned(abortSecond(c, callers), res, "none", "false"),
                              "false")
                  ELSE [c EXCEPT !.stack =
                           Append(callers, [fr EXCEPT !.pc = "first", !.hi = res])
                           \o <<Frame(rsFirst(fr.r), c.ev)>>]
             ELSE IF res = "false"
                  THEN unwind(returned(afterFirst(c, callers), fr.hi, res, "false"),
                              "false")
                  ELSE unwind(returned(afterFirst(c, callers), fr.hi, res, "true"),
                              "true")

\* the current invocation of task t returns res to its caller
Return(t, res) ==
    unwind([stack |-> Caller(t), ret |-> "none", ev |-> evs[tasks[t].e],
            log |-> tasks[t].log], res)

\* line 192: abort.load()
\* (variant load_never: the flag is never seen set)
load_never(a) == FALSE
load(a) == a

\* lines 218 and 223: what the interval out says about the View
sign(out) ==
    IF out[2] < 0 THEN "inside" ELSE IF out[1] <= 0 THEN "ambiguous" ELSE "outside"

small_below(r) == voxels(r) < N
small_above(r) == voxels(r) <= N + 1
\* r.voxels() <= Result::N: the View is evaluated voxel by voxel
small(r) == voxels(r) <= N

\* line 192: stop rendering if the abort flag is set
Poll(t) ==
    /\ pc \in {"dispatch", "join"}
    /\ t \in Tasks /\ Running(t) /\ Top(t).pc = "poll"
    /\ IF load(abort)
       THEN LET c == Return(t, "false")
            IN  /\ tasks' = [tasks EXCEPT ![t].stack = c.stack, ![t].ret = c.ret,
                                          ![t].log = c.log]
                /\ evs' = [evs EXCEPT ![tasks[t].e] = c.ev]
       ELSE /\ tasks' = [tasks EXCEPT ![t].stack[Len(tasks[t].stack)].pc = "body"]
            /\ evs' = evs
    /\ UNCHANGED <<vox, f, N, es, sound, abort, depth, norm, pc, rs, itr>>

\* lines 198-205: the block is already occluded
Occluded(t) ==
    /\ pc \in {"dispatch", "join"}
    /\ t \in Tasks /\ Running(t) /\ Top(t).pc = "body"
    /\ occluded(Top(t).r, depth)
    /\ LET c == Return(t, "true")
       IN  /\ tasks' = [tasks EXCEPT ![t].stack = c.stack, ![t].ret = c.ret,
                                     ![t].log = c.log,
                                     ![t].acc = @ \cup block(Top(t).r)]
           /\ evs' = [evs EXCEPT ![tasks[t].e] = c.ev]
    /\ UNCHANGED <<vox, f, N, es, sound, abort, depth, norm, pc, rs, itr>>

\* lines 208-212: a View of at most Result::N voxels is rendered by pixels
Leaf(t) ==
    /\ pc \in {"dispatch", "join"}
    /\ t \in Tasks /\ Running(t) /\ Top(t).pc = "body"
    /\ ~occluded(Top(t).r, depth)
    /\ small(Top(t).r)
    /\ LET m == pixels(Top(t).r, depth, norm)
           c == Return(t, "true")
       IN  /\ depth' = m.depth
           /\ norm' = m.norm
           /\ tasks' = [tasks EXCEPT ![t].stack = c.stack, ![t].ret = c.ret,
                                     ![t].log = c.log,
                                     ![t].acc = @ \cup block(Top(t).r) \cup m.acc,
                                     ![t].nr = Batch("pixels", Top(t).r, m),
                                     ![t].after = Work(@, 0, 1)]
           /\ evs' = [evs EXCEPT ![tasks[t].e] = c.ev]
    /\ UNCHANGED <<vox, f, N, es, sound, abort, pc, rs, itr>>

\* lines 215-221: the interval is strictly negative, fill the block
Fill(t) ==
    /\ pc \in {"dispatch", "join"}
    /\ t \in Tasks /\ Running(t) /\ Top(t).pc = "body"
    /\ ~occluded(Top(t).r, depth)
    /\ ~small(Top(t).r)
    /\ \E out \in eval(Top(t).r) :
          /\ out[2] < 0
          /\ LET m == fill(Top(t).r, depth, norm)
                 c == Return(t, "true")
             IN  /\ depth' = m.depth
                 /\ norm' = m.norm
                 /\ tasks' = [tasks EXCEPT ![t].stack = c.stack, ![t].ret = c.ret,
                                           ![t].log = c.log,
                                           ![t].acc = @ \cup block(Top(t).r) \cup m.acc,
                                           ![t].nr = Batch("fill", Top(t).r, m),
                                           ![t].after = Work(@, 1, 1),
                                           ![t].evals = @ + 1,
                                           ![t].out = sign(out)]
                 /\ evs' = [evs EXCEPT ![tasks[t].e] = c.ev]
    /\ UNCHANGED <<vox, f, N, es, sound, abort, pc, rs, itr>>

\* lines 215-232: the interval is ambiguous: push, split, recurse(rs.second)
Descend(t) ==
    /\ pc \in {"dispatch", "join"}
    /\ t \in Tasks /\ Running(t) /\ Top(t).pc = "body"
    /\ ~occluded(Top(t).r, depth)
    /\ ~small(Top(t).r)
    /\ \E out \in eval(Top(t).r) :
          /\ ~(out[2] < 0)
          /\ out[1] <= 0
          /\ LET e == tasks[t].e
                 ev == epush(evs[e])
             IN  /\ evs' = [evs EXCEPT ![e] = ev]
                 /\ tasks' = [tasks EXCEPT
                        ![t].stack = Append(Caller(t), [Top(t) EXCEPT !.pc = "second"])
                                     \o <<Frame(rsSecond(Top(t).r), ev)>>,
                        ![t].ret = "none",
                        ![t].acc = @ \cup block(Top(t).r),
                        ![t].after = Work(@, 1, 0),
                        ![t].evals = @ + 1,
                        ![t].out = sign(out)]
    /\ UNCHANGED <<vox, f, N, es, sound, abort, depth, norm, pc, rs, itr>>

\* lines 215-223, 246: the interval is strictly positive
Outside(t) ==
    /\ pc \in {"dispatch", "join"}
    /\ t \in Tasks /\ Running(t) /\ Top(t).pc = "body"
    /\ ~occluded(Top(t).r, depth)
    /\ ~small(Top(t).r)
    /\ \E out \in eval(Top(t).r) :
          /\ ~(out[2] < 0)
          /\ ~(out[1] <= 0)
          /\ LET c == Return(t, "true")
             IN  /\ tasks' = [tasks EXCEPT ![t].stack = c.stack, ![t].ret = c.ret,
                                           ![t].log = c.log,
                                           ![t].acc = @ \cup block(Top(t).r),
                                           ![t].after = Work(@, 1, 0),
                                           ![t].evals = @ + 1,
                                           ![t].out = sign(out)]
                 /\ evs' = [evs EXCEPT ![tasks[t].e] = c.ev]
    /\ UNCHANGED <<vox, f, N, es, sound, abort, depth, norm, pc, rs, itr>>

----------------------------------------------------------------------------
(* render *)

NewEvaluator == [active |-> 0, matrix |-> 0, users |-> {}]

\* the images as the caller hands them over
Image(v) == [p \in Pixels |-> v]

Grids == {g \in (1 .. MaxVoxels) \X (1 .. MaxVoxels) \X (1 .. MaxVoxels) :
             g[1] * g[2] * g[3] <= MaxVoxels}

\* the state render is called in, but for the evaluator's soundness
Setup ==
    /\ vox \in Grids
    /\ f \in [AllVoxels -> {-1, 1}]
    /\ N \in 1 .. MaxN
    /\ es \in 1 .. MaxWorkers
    /\ abort = FALSE
    /\ depth = Image(vox[3] - 1)
    /\ norm = Image(SKY)
    /\ pc = "fill"
    /\ rs = <<>>
    /\ itr = 1
    /\ tasks = <<>>
    /\ evs = [e \in 1 .. es |-> NewEvaluator]

\* the interval evaluator keeps its contract
Init == Setup /\ sound = TRUE

\* the interval evaluator may return any interval; these behaviours are
\* explored on the grids of at most AnyVoxels voxels
AnyInit == Setup /\ sound = FALSE /\ voxels(RootView) <= AnyVoxels

\* lines 257-261
RenderFill ==
    /\ pc = "fill"
    /\ depth' = Image(NegInf)
    /\ norm' = Image(ZERO)
    /\ rs' = <<RootView>>
    /\ pc' = "split"
    /\ UNCHANGED <<vox, f, N, es, sound, abort, itr, tasks, evs>>

\* rs.front().size.head<2>().minCoeff()
\* (variant minXY_max: the larger of the two sizes)
minXY_max(r) == IF r.sx <= r.sy THEN r.sy ELSE r.sx
minXY(r) == IF r.sx <= r.sy THEN r.sx ELSE r.sy

\* lines 262-269: one iteration of the work-list loop
SplitStep ==
    /\ pc = "split"
    /\ Len(rs) < es /\ minXY(Head(rs)) > 1
    /\ LET p == split(Head(rs), TRUE, TRUE, FALSE)
       IN  rs' = Tail(rs) \o <<p[1], p[2]>>
    /\ UNCHANGED <<vox, f, N, es, sound, abort, depth, norm, pc, itr, tasks, evs>>

\* lines 262, 272-273: the loop ends; itr = es.begin()
SplitExit ==
    /\ pc = "split"
    /\ ~(Len(rs) < es /\ minXY(Head(rs)) > 1)
    /\ pc' = "dispatch"
    /\ itr' = 1
    /\ UNCHANGED <<vox, f, N, es, sound, abort, depth, norm, rs, tasks, evs>>

\* line 282: ++itr
\* (variant advance_stay: the iterator is not advanced)
advance_stay(i) == i
advance(i) == i + 1

\* lines 274-283: setMatrix on *itr, launch the task on region, ++itr
Dispatch ==
    /\ pc = "dispatch"
    /\ Len(tasks) < Len(rs)
    /\ itr \in DOMAIN evs
    /\ LET region == rs[Len(tasks) + 1]
           t == Len(tasks) + 1
       IN  /\ evs' = [evs EXCEPT ![itr].matrix = @ + 1, ![itr].users = @ \cup {t}]
           /\ tasks' = Append(tasks, [e |-> itr, region |-> region,
                                      entry |-> evs[itr].active,
                                      stack |-> <<Frame(region, evs[itr])>>,
                                      ret |-> "none", acc |-> {}, nr |-> NoBatch,
                                      after |-> NoWork, log |-> {}, evals |-> 0,
                                      out |-> "none"])
    /\ itr' = advance(itr)
    /\ UNCHANGED <<vox, f, N, es, sound, abort, depth, norm, pc, rs>>

\* line 274: every region has its task
DispatchExit ==
    /\ pc = "dispatch"
    /\ Len(tasks) = Len(rs)
    /\ pc' = "join"
    /\ UNCHANGED <<vox, f, N, es, sound, abort, depth, norm, rs, itr, tasks, evs>>

\* lines 286-289: every future is ready
Join ==
    /\ pc = "join"
    /\ \A t \in Tasks : ~Running(t)
    /\ pc' = "sky"
    /\ UNCHANGED <<vox, f, N, es, sound, abort, depth, norm, rs, itr, tasks, evs>>

\* r.pts[2].back()
back == vox[3] - 1

\* line 293: norm = (depth == r.pts[2].back()).select(0xffff7f7f, norm)
\* (variant select_front: the depth is compared with the lowest sample)
select_front(d, n) == [p \in DOMAIN n |-> IF d[p] = 0 THEN SKY ELSE n[p]]
select(d, n) == [p \in DOMAIN n |-> IF d[p] = back THEN SKY ELSE n[p]]

Sky ==
    /\ pc = "sky"
    /\ norm' = select(depth, norm)
    /\ pc' = "done"
    /\ UNCHANGED <<vox, f, N, es, sound, abort, depth, rs, itr, tasks, evs>>

\* the caller renders again, into the same images and with the same pool
Restart ==
    /\ pc = "done"
    /\ pc' = "fill"
    /\ abort' = FALSE
    /\ rs' = <<>>
    /\ itr' = 1
    /\ tasks' = <<>>
    /\ evs' = [e \in 1 .. es |-> [NewEvaluator EXCEPT !.active = evs[e].active]]
    /\ UNCHANGED <<vox, f, N, es, sound, depth, norm>>

\* another thread raises abort during the render
SetAbort ==
    /\ pc # "done"
    /\ ~abort
    /\ abort' = TRUE
    /\ UNCHANGED <<vox, f, N, es, sound, depth, norm, pc, rs, itr, tasks, evs>>

Next ==
    \/ RenderFill
    \/ SplitStep
    \/ SplitExit
    \/ Dispatch
    \/ DispatchExit
    \/ Join
    \/ Sky
    \/ Restart
    \/ SetAbort
    \/ \E t \in Tasks : Poll(t)
    \/ \E t \in Tasks : Occluded(t)
    \/ \E t \in Tasks : Leaf(t)
    \/ \E t \in Tasks : Fill(t)
    \/ \E t \in Tasks : Descend(t)
    \/ \E t \in Tasks : Outside(t)

Spec == Init /\ [][Next]_vars

\* render with an evaluator whose intervals need not bound the field
AnySpec == AnyInit /\ [][Next]_vars

\* the steps of render itself and of the task t
Driver == RenderFill \/ SplitStep \/ SplitExit \/ Dispatch \/ DispatchExit \/ Join \/ Sky
TaskStep(t) ==
    /\ t \in Tasks
    /\ Poll(t) \/ Occluded(t) \/ Leaf(t) \/ Fill(t) \/ Descend(t) \/ Outside(t)

\* a running task always has a step to take: Ready(t) is the enabling
\* condition of TaskStep(t)
Ready(t) == t \in Tasks /\ Running(t) /\ pc \in {"dispatch", "join"}

\* the fair behaviours are explored on the grids of at most LiveVoxels voxels
LiveInit == Init /\ voxels(RootView) <= LiveVoxels

\* render runs on its thread and every std::launch::async task on its own:
\* each of them keeps taking steps while it has one to take.  The weak
\* fairness of a task is written out, with Ready(t) for ENABLED TaskStep(t).
FairSpec ==
    /\ LiveInit
    /\ [][Next]_vars
    /\ WF_vars(Driver)
    /\ \A t \in 1 .. MaxWorkers : []<>(~Ready(t)) \/ []<><<TaskStep(t)>>_vars

----------------------------------------------------------------------------
(* Properties *)

Max(S) == CHOOSE a \in S : \A b \in S : b <= a

\* the largest pz[k] with a negative field value in the column of pixel p
TopFilled(p) ==
    LET S == {k \in 0 .. vox[3] - 1 : f[<<p[1], p[2], k>>] < 0}
    IN  IF S = {} THEN NegInf ELSE Max(S)

\* C1: when render returns and abort was never set (the interval evaluator
\* being sound), every pixel's depth is the largest z of its column whose
\* field value is negative, and -infinity when the column has none
C1_DepthIsTopFilled ==
    (pc = "done" /\ ~abort) => \A p \in Pixels : depth[p] = TopFilled(p)

\* a finished render with a pixel whose hit lies below an empty voxel and
\* above another filled one, next to a pixel without any hit
C1_Witness ==
    /\ pc = "done" /\ ~abort
    /\ \E p, q \in Pixels :
          /\ depth[p] # NegInf /\ depth[p] < back
          /\ \E k \in 0 .. vox[3] - 1 : k < depth[p] /\ f[<<p[1], p[2], k>>] < 0
          /\ depth[q] = NegInf

\* C2: the tiles are pairwise disjoint in (x, y) and cover the image, every
\* task runs on its own tile, and every pixel a task reads or writes in
\* depth or norm lies inside its tile, so no pixel is touched by two tasks
C2_TilesPartitionAccesses ==
    /\ pc \notin {"fill", "split"} =>
          /\ \A i, j \in 1 .. Len(rs) :
                i # j => Footprint(rs[i]) \cap Footprint(rs[j]) = {}
          /\ UNION {Footprint(rs[i]) : i \in 1 .. Len(rs)} = Pixels
    /\ \A t \in Tasks :
          /\ tasks[t].region = rs[t]
          /\ tasks[t].acc \subseteq Footprint(tasks[t].region)
    /\ \A t1, t2 \in Tasks : t1 # t2 => tasks[t1].acc \cap tasks[t2].acc = {}

\* two tasks have finished and each has touched every pixel of its tile
C2_Witness ==
    /\ pc = "done"
    /\ Len(tasks) = 2
    /\ \A t \in Tasks : tasks[t].acc = Footprint(tasks[t].region)
    /\ \A t \in Tasks : \E p \in tasks[t].acc : depth[p] # NegInf

\* C3: the evaluator's activity stack is balanced over every recurse call:
\* an invocation that is running (at its poll or in its body) sees the depth
\* it was entered with, every invocation waiting for a sub-call holds exactly
\* one level above its entry depth, so the depth never falls below the entry
\* depth of any invocation in progress, and a finished task (Done or
\* Aborted) leaves the depth it was started with
C3_PushPopBalanced ==
    \A t \in Tasks :
        LET st == tasks[t].stack
            a == evs[tasks[t].e].active
        IN  IF st = <<>>
            THEN tasks[t].ret \in {"true", "false"} /\ a = tasks[t].entry
            ELSE /\ st[1].base = tasks[t].entry
                 /\ \A k \in 1 .. Len(st) - 1 :
                       /\ st[k].pc \in {"second", "first"}
                       /\ st[k + 1].base = st[k].base + 1
                 /\ st[Len(st)].pc \in {"poll", "body"}
                 /\ a = st[Len(st)].base
                 /\ \A k \in 1 .. Len(st) : a >= st[k].base

\* a task that descended (its tile is larger than a leaf, was not filled,
\* and a pixel of it was written) has returned Aborted
C3_Witness ==
    \E t \in Tasks :
        /\ ~Running(t)
        /\ tasks[t].ret = "false"
        /\ voxels(tasks[t].region) > N
        /\ \E p \in Footprint(tasks[t].region) : depth[p] # NegInf

\* the images a render of the field produces
RefDepth == [p \in Pixels |-> TopFilled(p)]
RefNorm ==
    [p \in Pixels |->
        IF TopFilled(p) = NegInf THEN ZERO
        ELSE IF TopFilled(p) = back THEN SKY
        ELSE pack(derivs(<<p[1], p[2], TopFilled(p)>>))]

\* C4: with abort never set, the depth and normal images at return are a
\* function of the field and the grid alone: they are the same for every
\* interleaving of the tasks, every worker count (and tiling), every batch
\* capacity, every answer of the interval evaluator and every earlier
\* content of the images (repeated renders)
C4_OutputDetermined ==
    (pc = "done" /\ ~abort) => depth = RefDepth /\ norm = RefNorm

\* a render with two tiles has finished; one tile has a hit and a pixel of
\* the other has none
C4_Witness ==
    /\ pc = "done" /\ ~abort
    /\ es = 2 /\ Len(tasks) = 2
    /\ \E p \in Footprint(tasks[1].region) : depth[p] # NegInf
    /\ \E p \in Footprint(tasks[2].region) : depth[p] = NegInf

\* C5: when render returns, aborted or not, a pixel has a normal exactly
\* when it has a depth
C5_NormalIffDepth ==
    pc = "done" => \A p \in Pixels : (depth[p] # NegInf) <=> (norm[p] # ZERO)

\* an aborted render returns with a hit below the top plane and a pixel
\* without a hit
C5_Witness ==
    /\ pc = "done" /\ abort
    /\ \E t \in Tasks : tasks[t].ret = "false"
    /\ \E p, q \in Pixels :
          /\ depth[p] # NegInf /\ depth[p] # back
          /\ depth[q] = NegInf

\* C6: the sky pass, on which render returns, sets the normal of every pixel
\* whose depth is the topmost sample pz[Nz-1] to 0xFFFF7F7F, whatever the
\* batcher wrote there, and leaves every other pixel's normal as it was
C6_SkyNormal ==
    [][(pc = "sky" /\ pc' = "done") =>
          (\A p \in Pixels :
              /\ depth'[p] = back => norm'[p] = SKY
              /\ depth'[p] # back => norm'[p] = norm[p])]_vars

\* render has returned; a pixel at the top plane whose gradient packs to
\* another word carries the sky normal, and a pixel below the top plane
\* carries the normal of its own point
C6_Witness ==
    /\ pc = "done"
    /\ \E p, q \in Pixels :
          /\ depth[p] = back
          /\ pack(derivs(<<p[1], p[2], back>>)) # SKY
          /\ norm[p] = SKY
          /\ depth[q] \notin {back, NegInf}
          /\ norm[q] = pack(derivs(<<q[1], q[2], depth[q]>>))
          /\ norm[q] # SKY

\* C7 as stated: once abort is true no new invocation of recurse is
\* started, by the driver or by a recurse invocation
C7_NoInvocationAfterAbort ==
    \A t \in Tasks : \A k \in 1 .. Len(tasks[t].stack) : ~tasks[t].stack[k].late

\* C7 amended: an invocation of recurse started after abort became true
\* does nothing but poll: its step returns Aborted through every enclosing
\* invocation, ending the task with the evaluator's stack at its entry
\* depth, without touching the images or recording any access
C7_LateInvocationReturnsAtPoll ==
    [][\A t \in Tasks :
          (Running(t) /\ Top(t).late /\ tasks'[t] # tasks[t]) =>
              /\ Top(t).pc = "poll"
              /\ tasks'[t].stack = <<>>
              /\ tasks'[t].ret = "false"
              /\ tasks'[t].acc = tasks[t].acc
              /\ tasks'[t].nr = tasks[t].nr
              /\ evs'[tasks[t].e].active = tasks[t].entry
              /\ depth' = depth
              /\ norm' = norm ]_vars

\* abort is set and an invocation started after it, by a recurse invocation
\* whose high child had returned Done, is about to poll
C7_Witness ==
    \E t \in Tasks :
        /\ abort
        /\ Len(tasks[t].stack) >= 2
        /\ Top(t).late
        /\ tasks[t].stack[Len(tasks[t].stack) - 1].pc = "first"

\* C8: after the initial fill, a step changes a depth pixel only to a
\* strictly greater value
C8_DepthOnlyGrows ==
    [][(pc \in {"split", "dispatch", "join", "sky"}) =>
          (\A p \in Pixels : depth'[p] # depth[p] => depth'[p] > depth[p])]_vars

\* the tasks are running and a tile has been written at two different depths
C8_Witness ==
    /\ pc = "join"
    /\ \E p, q \in Pixels :
          /\ depth[p] # NegInf /\ depth[q] # NegInf
          /\ depth[p] < depth[q]
          /\ \E t \in Tasks : {p, q} \subseteq Footprint(tasks[t].region)

\* C9 as stated: the number of tasks launched equals the number of
\* evaluators, each evaluator being used by exactly one task
C9_TasksEqualEvaluators ==
    pc \in {"join", "sky", "done"} =>
        /\ Len(tasks) = es
        /\ \A e \in 1 .. es : Cardinality(evs[e].users) = 1

\* C9 amended: at least one and at most as many tasks as evaluators are
\* launched; no evaluator is shared between two tasks; the driver installs
\* the matrix exactly once on each evaluator it hands to a task, and never
\* touches the others
C9_TasksWithinPool ==
    /\ pc \in {"join", "sky", "done"} => Len(tasks) >= 1 /\ Len(tasks) <= es
    /\ \A t \in Tasks : tasks[t].e \in 1 .. es
    /\ \A t1, t2 \in Tasks : t1 # t2 => tasks[t1].e # tasks[t2].e
    /\ \A e \in 1 .. es :
          /\ evs[e].users = {t \in Tasks : tasks[t].e = e}
          /\ Cardinality(evs[e].users) <= 1
          /\ evs[e].matrix = Cardinality(evs[e].users)
          /\ evs[e].users = {} => evs[e].active = 0

\* every region has its task and an evaluator of the pool is left unused
C9_Witness ==
    /\ pc = "join"
    /\ es = 2
    /\ Len(tasks) = 1
    /\ evs[1].users = {1} /\ evs[2].users = {}

\* C10: every normal batcher is destroyed with count = 0
C10_BatcherFlushed ==
    \A t \in Tasks : tasks[t].nr.count = 0

\* a batcher of pixels and a batcher of fill whose last push filled the
\* batch exactly (the run came from push, flush had nothing left) have been
\* destroyed
C10_Witness ==
    \E t \in Tasks :
        /\ tasks[t].nr.kind \in {"pixels", "fill"}
        /\ N >= 2
        /\ tasks[t].nr.pushes = N
        /\ tasks[t].nr.runs = 1
        /\ tasks[t].nr.count = 0

\* C11: after abort became true a task calls e->eval at most once more and
\* pixels or fill at most once more, an invocation entered afterwards never
\* gets past its poll, and (the threads being scheduled) the join completes
C11_AbortBoundedWork ==
    /\ [](\A t \in Tasks :
            /\ tasks[t].after.evals <= 1
            /\ tasks[t].after.calls <= 1
            /\ \A k \in 1 .. Len(tasks[t].stack) :
                  tasks[t].stack[k].late => tasks[t].stack[k].pc = "poll")
    /\ (abort ~> pc \in {"sky", "done"})

\* abort was raised while an invocation was past its poll; that invocation
\* evaluated its interval and filled its block, and the join has completed
C11_Witness ==
    /\ abort
    /\ pc = "sky"
    /\ \E t \in Tasks : tasks[t].after = [evals |-> 1, calls |-> 1]


\* the guards of the steps of a running task: one of them holds
CanStep(t) ==
    \/ Top(t).pc = "poll"
    \/ /\ Top(t).pc = "body"
       /\ \/ occluded(Top(t).r, depth)
          \/ small(Top(t).r)
          \/ eval(Top(t).r) # {}

\* C12: View::split is only called on a View of more than N voxels (hence
\* of at least 2), each child has at least one voxel and fewer than its
\* parent, a View of at most N voxels has no sub-call, a running task always
\* has a step to take, and (the threads being scheduled) every render that
\* starts gets through its join and returns
C12_RecurseTerminates ==
    /\ [](\A t \in Tasks : Ready(t) => CanStep(t))
    /\ [](\A t \in Tasks : \A k \in 1 .. Len(tasks[t].stack) :
            LET st == tasks[t].stack
            IN  /\ st[k].pc \in {"second", "first"} =>
                      /\ voxels(st[k].r) > N
                      /\ voxels(st[k].r) >= 2
                      /\ k < Len(st)
                /\ k < Len(st) =>
                      /\ voxels(st[k + 1].r) >= 1
                      /\ voxels(st[k + 1].r) < voxels(st[k].r)
                /\ voxels(st[k].r) <= N => k = Len(st))
    /\ ((pc = "fill") ~> (pc = "done"))

\* render has returned, never aborted, after a tile of more than N voxels was
\* split down to a View that pixels evaluated
C12_Witness ==
    /\ pc = "done"
    /\ ~abort
    /\ \E t \in Tasks :
          /\ voxels(tasks[t].region) > N
          /\ tasks[t].ret = "true"
          /\ tasks[t].nr.kind = "pixels"


\* the half of View r with the larger indices and the half with the smaller
HighHalf(r, h) ==
    /\ h.cx >= r.cx /\ h.cy >= r.cy /\ h.cz >= r.cz
    /\ h.cx + h.cy + h.cz > r.cx + r.cy + r.cz
    /\ h.cx + h.sx = r.cx + r.sx
    /\ h.cy + h.sy = r.cy + r.sy
    /\ h.cz + h.sz = r.cz + r.sz
LowHalf(r, l) ==
    /\ l.cx = r.cx /\ l.cy = r.cy /\ l.cz = r.cz
    /\ l.sx <= r.sx /\ l.sy <= r.sy /\ l.sz <= r.sz
    /\ voxels(l) < voxels(r)

\* C13: the first sub-call of an ambiguous invocation is on the high half
\* and the low half is entered only after the high half returned Done; after
\* an Aborted high half there is no second sub-call; and an invocation that
\* made a sub-call returned Aborted exactly when one of its sub-calls did
C13_HighChildFirst ==
    \A t \in Tasks :
       /\ \A k \in 1 .. Len(tasks[t].stack) - 1 :
             LET st == tasks[t].stack
             IN  /\ st[k].pc \in {"second", "first"}
                 /\ st[k].pc = "second" =>
                       HighHalf(st[k].r, st[k + 1].r) /\ st[k].hi = "none"
                 /\ st[k].pc = "first" =>
                       LowHalf(st[k].r, st[k + 1].r) /\ st[k].hi = "true"
       /\ \A x \in tasks[t].log :
             /\ x.hi \in {"true", "false"}
             /\ x.hi = "false" => x.lo = "none"
             /\ x.hi = "true" => x.lo \in {"true", "false"}
             /\ x.res = "false" <=> (x.hi = "false" \/ x.lo = "false")

\* in one task an invocation returned Done after both halves did, another
\* returned Aborted from its high half, and another from its low half
C13_Witness ==
    \E t \in Tasks :
       /\ [hi |-> "true", lo |-> "true", res |-> "true"] \in tasks[t].log
       /\ [hi |-> "false", lo |-> "none", res |-> "false"] \in tasks[t].log
       /\ [hi |-> "true", lo |-> "false", res |-> "false"] \in tasks[t].log


\* C14: the work-list loop splits only a View whose sx and sy both exceed 1
\* and leaves two tiles that each have voxels; past the loop there are at
\* least one and at most es tiles, and whenever a task is about to be
\* launched the evaluator iterator stands on an evaluator of the pool
C14_SplitLoopWithinPool ==
    /\ [][(pc = "split" /\ rs' # rs) =>
            (/\ Head(rs).sx > 1
             /\ Head(rs).sy > 1
             /\ Len(rs') = Len(rs) + 1
             /\ Len(rs') <= es
             /\ \A k \in 1 .. Len(rs') : voxels(rs'[k]) >= 1)]_vars
    /\ [](pc \in {"dispatch", "join", "sky", "done"} =>
            (/\ Len(rs) >= 1
             /\ Len(rs) <= es
             /\ itr \in 1 .. es + 1))
    /\ [](pc = "dispatch" /\ Len(tasks) < Len(rs) => itr \in 1 .. es)

\* the loop produced as many tiles as there are evaluators, more than one,
\* and the last of them has been dispatched: the iterator is at the end
C14_Witness ==
    /\ pc = "dispatch"
    /\ es >= 2
    /\ Len(rs) = es
    /\ Len(tasks) = Len(rs)
    /\ itr = es + 1


\* C15: a pixels call gives setRaw only indices below N and gives
\* applyTransform and values a count of at most N; push, in pixels and in
\* fill, writes only slots below N and returns with count in 0 .. N-1
C15_SlotsWithinN ==
    \A t \in Tasks :
       LET nr == tasks[t].nr
       IN  /\ nr.kind = "pixels" =>
                 /\ voxels(nr.r) <= N
                 /\ nr.seen.hiSlot < N
                 /\ nr.seen.nvals <= N
                 /\ nr.seen.nvals = Len(nr.seen.plan)
           /\ nr.seen.hiPush < N
           /\ nr.seen.hiCount \in 0 .. N - 1
           /\ nr.count \in 0 .. N - 1

\* a pixels call on a View of exactly N >= 2 voxels staged all of them and
\* pushed N pixels, the last one into slot N-1
C15_Witness ==
    \E t \in Tasks :
       /\ N >= 2
       /\ tasks[t].nr.kind = "pixels"
       /\ tasks[t].nr.seen.hiSlot = N - 1
       /\ tasks[t].nr.seen.nvals = N
       /\ tasks[t].nr.seen.hiPush = N - 1
       /\ tasks[t].nr.seen.hiCount = N - 1


\* the step of task t made its top invocation return and changed neither
\* image, called neither pixels nor fill, pushed nothing on the evaluator's
\* activity stack, started no sub-call of that invocation, and the task did
\* not return Aborted
Quiet(t) ==
    LET st == tasks[t].stack
        st2 == tasks'[t].stack
        n == Len(st)
    IN  /\ depth' = depth
        /\ norm' = norm
        /\ tasks'[t].nr = tasks[t].nr
        /\ tasks'[t].ret # "false"
        /\ Len(st2) <= n
        /\ Len(st2) = n => st2[n].r # st[n].r
        /\ evs'[tasks[t].e].active <= evs[tasks[t].e].active
        /\ (n >= 2 /\ st[n - 1].pc = "second") =>
              /\ evs' = evs
              /\ Len(st2) = n
              /\ st2[n].base = st[n].base
              /\ st2[n - 1].hi = "true"
        /\ n = 1 =>
              /\ evs' = evs
              /\ st2 = <<>>
              /\ tasks'[t].ret = "true"

\* every pixel under View r already has a depth at or above the top of r
Hidden(r) == \A p \in Footprint(r) : depth[p] >= ptsz(r, r.sz - 1)

\* C16: an invocation that finds its View occluded returns Done without any
\* evaluator call, and one whose View of more than N voxels has a strictly
\* positive interval returns Done after that one evaluation; both leave depth,
\* norm and the evaluator's activity stack as they were and call neither
\* push, split, pixels nor fill, nor recurse
C16_OccludedOrOutsideIsQuiet ==
    [][\A t \in Tasks :
          (/\ Len(tasks') = Len(tasks)
           /\ tasks'[t] # tasks[t]
           /\ Running(t)
           /\ Top(t).pc = "body") =>
             (/\ Hidden(Top(t).r) =>
                    /\ Quiet(t)
                    /\ tasks'[t].evals = tasks[t].evals
                    /\ tasks'[t].out = tasks[t].out
              /\ (/\ ~Hidden(Top(t).r)
                  /\ voxels(Top(t).r) > N
                  /\ tasks'[t].out = "outside") =>
                    /\ Quiet(t)
                    /\ tasks'[t].evals = tasks[t].evals + 1)]_vars

\* a task whose last interval evaluation found a View entirely outside is
\* about to test a sub-View that is occluded
C16_Witness ==
    \E t \in Tasks :
       /\ Running(t)
       /\ Len(tasks[t].stack) >= 2
       /\ Top(t).pc = "body"
       /\ Hidden(Top(t).r)
       /\ tasks[t].out = "outside"


\* C17: in a pixels call both passes skip the same columns, every slot the
\* extraction pass reads is the slot the staging pass gave to the voxel it
\* is read for, the cursor advances by the View's sz over every column that
\* is not skipped, and it ends at the number of staged voxels
C17_ExtractionReadsStagedSlots ==
    \A t \in Tasks :
       LET nr == tasks[t].nr
       IN  nr.kind = "pixels" =>
              /\ nr.seen.skipE = nr.seen.skipS
              /\ \A x \in nr.seen.reads :
                    /\ x.slot \in 0 .. Len(nr.seen.plan) - 1
                    /\ nr.seen.plan[x.slot + 1] = x.pt
              /\ nr.seen.strides \subseteq {nr.r.sz}
              /\ nr.index = Len(nr.seen.plan)
              /\ nr.index = nr.seen.nvals
              /\ nr.index =
                    nr.r.sz * (nr.r.sx * nr.r.sy - Cardinality(nr.seen.skipS))

\* a pixels call skipped a column, and wrote depth for another one
C17_Witness ==
    \E t \in Tasks :
       /\ tasks[t].nr.kind = "pixels"
       /\ tasks[t].nr.seen.skipS # {}
       /\ tasks[t].nr.seen.reads # {}
       /\ tasks[t].nr.seen.wrote # <<>>


\* C18: in a pixels call every result value is read before any run of the
\* batcher; a run inside push happens at most at the last column of the
\* View, and otherwise the only run is the one of the final flush
C18_NoRunBeforeLastRead ==
    \A t \in Tasks :
       LET nr == tasks[t].nr
       IN  nr.kind = "pixels" =>
              /\ \A x \in nr.seen.reads : x.runs = 0
              /\ nr.seen.pushRuns \subseteq {nr.r.sx * nr.r.sy - 1}
              /\ nr.runs <= 1
              /\ nr.runs = 1 <=> nr.pushes > 0
              /\ nr.seen.pushRuns # {} => nr.pushes = N

\* a pixels call on N >= 2 columns pushed all of them: the last push ran
\* the batch
C18_Witness ==
    \E t \in Tasks :
       /\ N >= 2
       /\ tasks[t].nr.kind = "pixels"
       /\ tasks[t].nr.seen.pushRuns = {N - 1}
       /\ Cardinality(tasks[t].nr.seen.reads) = N


\* C19: between the initial fill and the return of render a depth pixel
\* changes only by a write of a pixels or fill call, such a call writes a
\* pixel once, and only a pixel that still holds -infinity: no pixel is
\* written twice, whatever intervals the evaluator returns and whether or
\* not abort is raised
C19_DepthWrittenOnce ==
    [][(pc \in {"split", "dispatch", "join", "sky"} /\ Len(tasks') = Len(tasks)) =>
          (/\ \A p \in Pixels : depth'[p] # depth[p] => depth[p] = NegInf
           /\ \A t \in Tasks :
                 LET w == tasks'[t].nr.seen.wrote
                 IN  tasks'[t].nr # tasks[t].nr =>
                        /\ \A a \in 1 .. Len(w) :
                              /\ depth[w[a][1]] = NegInf
                              /\ depth'[w[a][1]] = w[a][2]
                              /\ \A b \in 1 .. Len(w) : w[b][1] = w[a][1] => b = a
                        /\ \A p \in Pixels :
                              depth'[p] # depth[p] => \E a \in 1 .. Len(w) : w[a][1] = p
           /\ (\A t \in Tasks : tasks'[t].nr = tasks[t].nr) => depth' = depth)]_vars

\* an evaluator that broke its contract had a block filled whose column has
\* no filled voxel, below a pixel written earlier; render has returned
C19_Witness ==
    /\ pc = "done"
    /\ ~sound
    /\ \E p \in Pixels : depth[p] # NegInf /\ TopFilled(p) = NegInf
    /\ \E t \in Tasks : tasks[t].nr.kind = "fill" /\ tasks[t].region # tasks[t].nr.r


\* C20: in every pixels or fill call the pushes are the depth writes, pixel
\* by pixel and z by z, and the blits are the pushes, each to its own pixel
\* with the gradient at (px, py, z); so while the tasks run, and when render
\* has returned, every pixel with a finite depth other than the sky's z
\* holds the packed gradient at its depth
C20_NormIsGradientAtDepth ==
    /\ \A t \in Tasks :
          LET nr == tasks[t].nr
          IN  /\ nr.seen.pushed = nr.seen.wrote
              /\ Len(nr.seen.blits) = Len(nr.seen.pushed)
              /\ \A k \in 1 .. Len(nr.seen.pushed) :
                    LET e == nr.seen.pushed[k]
                    IN  nr.seen.blits[k] = <<e[1], <<e[1][1], e[1][2], e[2]>>>>
              /\ nr.count = 0
    /\ pc \in {"dispatch", "join", "sky"} =>
          \A p \in Pixels :
             depth[p] # NegInf => norm[p] = pack(derivs(<<p[1], p[2], depth[p]>>))
    /\ pc = "done" =>
          \A p \in Pixels :
             (depth[p] # NegInf /\ depth[p] # back) =>
                norm[p] = pack(derivs(<<p[1], p[2], depth[p]>>))

\* render has returned with a pixel whose depth is finite and below the
\* sky's z, after a call that pushed and blitted a batch of two pixels
C20_Witness ==
    /\ pc = "done"
    /\ \E p \in Pixels : depth[p] # NegInf /\ depth[p] # back
    /\ \E t \in Tasks :
          /\ Len(tasks[t].nr.seen.blits) >= 2
          /\ \E p \in Pixels :
                /\ depth[p] # NegInf /\ depth[p] # back
                /\ \E k \in 1 .. Len(tasks[t].nr.seen.blits) :
                      tasks[t].nr.seen.blits[k][1] = p

====
